---- MODULE Spec2Model ----
(***************************************************************************)
(* Whisper: BIP-352 silent-payment indexer-server, scanner-client and the  *)
(* cryptographic core they share.                                          *)
(*                                                                         *)
(* The server part models the three tables, the ingestor's database        *)
(* transaction (one step per awaited statement) and the two HTTP handlers. *)
(* Byte strings are sequences of 0..255, text is a sequence of one-        *)
(* character strings, i32 values are integers in -2^31 .. 2^31-1.          *)
(***************************************************************************)
EXTENDS Integers, Sequences, FiniteSets, TLC

VARIABLES
    blocks,           \* committed rows of table blocks
    transactions,     \* committed rows of table transactions
    taproot_outputs,  \* committed rows of table taproot_outputs
    txn,              \* the ingestor's open database transaction, or NoTxn
    indexer,          \* the ingestor task: running, or how it ended
    ingested_with,    \* history: which block's ingestion stored each output row
    resp,             \* what the last step gave out: the response of a handler
                      \* or a line of the error log
    core              \* the cryptographic core: a scan key, the last call to one
                      \* of its functions and what the call returned

vars == <<blocks, transactions, taproot_outputs, txn, indexer, ingested_with, resp, core>>

(***************************************************************************)
(* Bytes, text and 32-bit integers                                         *)
(***************************************************************************)
Zeros(k) == [i \in 1..k |-> 0]

I32_MAX == 2147483647
I32_MIN == (-I32_MAX) - 1

HexLower == <<"0","1","2","3","4","5","6","7","8","9","a","b","c","d","e","f">>
HexUpper == <<"0","1","2","3","4","5","6","7","8","9","A","B","C","D","E","F">>

\* encode(bytes, 'hex') of the query, hex::encode of the client: two lowercase
\* digits per byte.
hex_encode(bytes) ==
    [i \in 1..(2 * Len(bytes)) |->
        LET b == bytes[(i + 1) \div 2]
        IN  IF i % 2 = 1 THEN HexLower[(b \div 16) + 1] ELSE HexLower[(b % 16) + 1]]

\* char::to_digit(16): 0..15, or -1 for a character that is no hex digit.
to_digit(c) ==
    IF \E i \in 1..16 : HexLower[i] = c \/ HexUpper[i] = c
    THEN (CHOOSE i \in 1..16 : HexLower[i] = c \/ HexUpper[i] = c) - 1
    ELSE -1

\* i32::from_be_bytes
i32_from_be_bytes(b) ==
    (IF b[1] >= 128 THEN b[1] - 256 ELSE b[1]) * 16777216
        + b[2] * 65536 + b[3] * 256 + b[4]

\* u32::from_be_bytes; a u32 is kept as its two 16-bit halves.
u32_from_be_bytes(b) == [hi |-> b[1] * 256 + b[2], lo |-> b[3] * 256 + b[4]]

\* format!("{:08x}", p) for a u32 p.
Hex4(h) ==
    <<HexLower[(h \div 4096) + 1], HexLower[((h \div 256) % 16) + 1],
      HexLower[((h \div 16) % 16) + 1], HexLower[(h % 16) + 1]>>
format_08x(p) == Hex4(p.hi) \o Hex4(p.lo)

\* str::trim_start_matches("0x"): strips every leading repetition of the pattern.
RECURSIVE trim_start_matches_0x(_)
trim_start_matches_0x(s) ==
    IF Len(s) >= 2 /\ s[1] = "0" /\ s[2] = "x"
    THEN trim_start_matches_0x(SubSeq(s, 3, Len(s)))
    ELSE s

\* The digit loop of i32::from_str_radix(_, 16) with its checked multiply and
\* checked add (positive) or checked subtract (negative).
RECURSIVE ParseDigits(_, _, _, _)
ParseDigits(s, i, acc, positive) ==
    IF i > Len(s) THEN [ok |-> TRUE, val |-> acc]
    ELSE LET d == to_digit(s[i]) IN
         IF d < 0 THEN [ok |-> FALSE, err |-> "InvalidDigit"]
         ELSE IF positive
              THEN IF acc > I32_MAX \div 16 \/ acc * 16 > I32_MAX - d
                   THEN [ok |-> FALSE, err |-> "PosOverflow"]
                   ELSE ParseDigits(s, i + 1, acc * 16 + d, positive)
              ELSE IF acc < -134217728 \/ acc * 16 < I32_MIN + d
                   THEN [ok |-> FALSE, err |-> "NegOverflow"]
                   ELSE ParseDigits(s, i + 1, acc * 16 - d, positive)

\* i32::from_str_radix(src, 16)
i32_from_str_radix(src) ==
    IF Len(src) = 0 THEN [ok |-> FALSE, err |-> "Empty"]
    ELSE IF Len(src) = 1 /\ src[1] \in {"+", "-"}
         THEN [ok |-> FALSE, err |-> "InvalidDigit"]
    ELSE IF src[1] = "+" THEN ParseDigits(src, 2, 0, TRUE)
    ELSE IF src[1] = "-" THEN ParseDigits(src, 2, 0, FALSE)
    ELSE ParseDigits(src, 1, 0, TRUE)

(***************************************************************************)
(* Blocks on the wire                                                      *)
(***************************************************************************)
\* A 32-byte identifier (block hash, txid) whose first byte is i.
Id32(i) == <<i>> \o Zeros(31)
\* A 32-byte x-only key with the given first four bytes.
KeyWith(p) == p \o Zeros(28)
\* scriptPubKey of a Taproot output: OP_1, push 32, key.
TaprootScript(key) == <<81, 32>> \o key

KeyLow  == KeyWith(<<18, 52, 86, 120>>)       \* 12 34 56 78 ...
KeyMid  == KeyWith(<<127, 255, 255, 255>>)    \* 7F FF FF FF ...
KeyHigh == KeyWith(<<170, 187, 204, 221>>)    \* AA BB CC DD ...
KeyTop  == KeyWith(<<255, 255, 255, 255>>)    \* FF FF FF FF ...
P2wpkhScript == <<0, 20, 18, 52>>
\* 34 bytes, but a version-0 program: not Taproot.
V0Script34 == <<0, 32>> \o KeyLow

CoinbaseIn(sig) == [prevout_null |-> TRUE, script_sig |-> sig]
SpendIn == [prevout_null |-> FALSE, script_sig |-> <<>>]
TxOut(script, sats) == [script_pubkey |-> script, value |-> sats]

TxCbA == [txid |-> Id32(1), input |-> <<CoinbaseIn(<<1, 1>>)>>,
          output |-> <<TxOut(TaprootScript(KeyLow), 50)>>]
TxCbB == [txid |-> Id32(2), input |-> <<CoinbaseIn(<<1, 1, 7>>)>>,
          output |-> <<TxOut(TaprootScript(KeyTop), 50)>>]
TxPay == [txid |-> Id32(3), input |-> <<SpendIn>>,
          output |-> <<TxOut(P2wpkhScript, 7), TxOut(TaprootScript(KeyMid), 9)>>]
TxCbC == [txid |-> Id32(4), input |-> <<CoinbaseIn(<<1, 2>>)>>,
          output |-> <<TxOut(TaprootScript(KeyLow), 50), TxOut(V0Script34, 1)>>]
TxCbD == [txid |-> Id32(5), input |-> <<CoinbaseIn(<<1, 2, 9>>)>>,
          output |-> <<TxOut(TaprootScript(KeyHigh), 50)>>]

Header(prev) == [prev_blockhash |-> prev]
\* BlkA and BlkB compete at height 1 and both carry TxPay; BlkC extends BlkA and
\* BlkD extends BlkB at height 2.
BlkA == [hash |-> Id32(161), header |-> Header(Id32(0)), txdata |-> <<TxCbA, TxPay>>]
BlkB == [hash |-> Id32(177), header |-> Header(Id32(0)), txdata |-> <<TxCbB, TxPay>>]
BlkC == [hash |-> Id32(194), header |-> Header(Id32(161)), txdata |-> <<TxCbC>>]
BlkD == [hash |-> Id32(210), header |-> Header(Id32(177)), txdata |-> <<TxCbD>>]
BlockStream == {BlkA, BlkB, BlkC, BlkD}

\* A block without transactions: the header and a transaction count of 0.
BlkEmpty == [hash |-> Id32(226), header |-> Header(Id32(194)), txdata |-> <<>>]

\* The payload of a message, kept as what Block::consensus_decode makes of it.
BlockBytes(block) == [decodes |-> TRUE, block |-> block]
Undecodable == [decodes |-> FALSE]
consensus_decode(data) ==
    IF data.decodes THEN [ok |-> TRUE, val |-> data.block]
    ELSE [ok |-> FALSE, err |-> "Bitcoin"]

\* The multipart messages the subscription delivers: a topic frame alone, a
\* message of another topic, and rawblock messages with a payload.
Messages ==
    {<<"rawblock">>, <<"rawtx", Undecodable>>, <<"rawblock", Undecodable>>}
    \cup {<<"rawblock", BlockBytes(b)>> : b \in BlockStream \cup {BlkEmpty}}

BlockOfHash(h) == CHOOSE b \in BlockStream : b.hash = h

(***************************************************************************)
(* Ingestor (indexer.rs)                                                   *)
(***************************************************************************)
\* Transaction::is_coinbase: exactly one input, spending the null outpoint.
is_coinbase(tx) == Len(tx.input) = 1 /\ tx.input[1].prevout_null

\* (b as i32) << (i * 8), or-ed over the pushed bytes, little-endian.
HeightOfBytes(hb) ==
    LET byte(i) == IF i <= Len(hb) THEN hb[i] ELSE 0
        top == IF byte(4) >= 128 THEN byte(4) - 256 ELSE byte(4)
    IN  top * 16777216 + byte(3) * 65536 + byte(2) * 256 + byte(1)

\* extract_height_from_coinbase: Some(height) or None.
extract_height_from_coinbase(tx) ==
    IF ~is_coinbase(tx) \/ Len(tx.input) = 0 THEN [some |-> FALSE]
    ELSE LET bytes == tx.input[1].script_sig IN
         IF Len(bytes) = 0 THEN [some |-> FALSE]
         ELSE LET len == bytes[1] IN
              IF len > 0 /\ len <= 4 /\ Len(bytes) >= len + 1
              THEN [some |-> TRUE, val |-> HeightOfBytes(SubSeq(bytes, 2, len + 1))]
              ELSE [some |-> FALSE]

\* extract_height_from_coinbase(&block.txdata[0]).unwrap_or(0)
BlockHeight(block) ==
    LET h == extract_height_from_coinbase(block.txdata[1])
    IN  IF h.some THEN h.val ELSE 0

\* The script test of process_output without the test of the two leading bytes.
IsLength34(script) == Len(script) = 34

\* The script test of process_output.
IsTaproot(script) == Len(script) = 34 /\ script[1] = 81 /\ script[2] = 32

\* The row process_output inserts for a Taproot output.
OutputRow(txid, vout, output, block_height) ==
    LET script == output.script_pubkey
        x_only_bytes == SubSeq(script, 3, 34)
    IN  [txid |-> txid, vout |-> vout, block_height |-> block_height,
         script_pubkey |-> script, amount |-> output.value,
         x_only_pubkey |-> x_only_bytes,
         sp_prefix |-> i32_from_be_bytes(SubSeq(x_only_bytes, 1, 4))]

\* The statements process_output issues for the outputs of one transaction, in
\* order: one INSERT per Taproot output, nothing for any other script.
RECURSIVE OutputStmts(_, _, _)
OutputStmts(tx, vout, block_height) ==
    IF vout >= Len(tx.output) THEN <<>>
    ELSE (IF IsTaproot(tx.output[vout + 1].script_pubkey)
          THEN <<[table |-> "taproot_outputs",
                  row |-> OutputRow(tx.txid, vout, tx.output[vout + 1], block_height)]>>
          ELSE <<>>)
         \o OutputStmts(tx, vout + 1, block_height)

\* process_transaction: the INSERT of the transaction row, then its outputs.
process_transaction(tx, block_height, block_index) ==
    <<[table |-> "transactions",
       row |-> [txid |-> tx.txid, block_height |-> block_height,
                block_index |-> block_index, is_coinbase |-> is_coinbase(tx)]]>>
    \o OutputStmts(tx, 0, block_height)

RECURSIVE TxStmts(_, _, _)
TxStmts(block, tx_index, height) ==
    IF tx_index >= Len(block.txdata) THEN <<>>
    ELSE process_transaction(block.txdata[tx_index + 1], height, tx_index)
         \o TxStmts(block, tx_index + 1, height)

\* process_block: every statement it sends inside its database transaction,
\* in the order it awaits them.
BlockStmts(block) ==
    LET height == BlockHeight(block) IN
    <<[table |-> "blocks",
       row |-> [height |-> height, hash |-> block.hash, header |-> block.header,
                is_orphaned |-> FALSE]]>>
    \o TxStmts(block, 0, height)

NoTxn == [active |-> FALSE]
NoResp == [kind |-> "none"]
NoCore == [call |-> [fn |-> "none"]]

\* What the open transaction sees: the committed rows and its own writes.
Visible(table) ==
    CASE table = "blocks" -> blocks \cup txn.w_blocks
      [] table = "transactions" -> transactions \cup txn.w_transactions
      [] table = "taproot_outputs" -> taproot_outputs \cup txn.w_outputs

\* INSERTs without an ON CONFLICT clause.
ConflictsNever(stmt) == FALSE

\* ON CONFLICT (...) DO NOTHING: the conflict targets of the three INSERTs.
Conflicts(stmt) ==
    CASE stmt.table = "blocks" ->
            \E r \in Visible("blocks") : r.hash = stmt.row.hash
      [] stmt.table = "transactions" ->
            \E r \in Visible("transactions") : r.txid = stmt.row.txid
      [] stmt.table = "taproot_outputs" ->
            \E r \in Visible("taproot_outputs") :
                r.txid = stmt.row.txid /\ r.vout = stmt.row.vout

\* The transaction's write sets after executing one INSERT.
AfterInsert(stmt) ==
    IF Conflicts(stmt) THEN txn
    ELSE CASE stmt.table = "blocks" ->
                [txn EXCEPT !.w_blocks = @ \cup {stmt.row}]
           [] stmt.table = "transactions" ->
                [txn EXCEPT !.w_transactions = @ \cup {stmt.row}]
           [] stmt.table = "taproot_outputs" ->
                [txn EXCEPT !.w_outputs = @ \cup {stmt.row}]

\* The ingestor task: in its loop, or ended by a panic or by run_indexer
\* returning an error.
Running == [running |-> TRUE]
Ended(how) == [running |-> FALSE, how |-> how]
\* A line of the error log.
Logged(line) == [kind |-> "log", line |-> line]

\* The message is a rawblock message whose payload decodes to a block.
Decodes(msg) ==
    IF Len(msg) < 2 THEN FALSE
    ELSE IF msg[1] # "rawblock" THEN FALSE
    ELSE consensus_decode(msg[2]).ok
\* The blocks the loop hands to process_block.
DecodedBlocks == {consensus_decode(msg[2]).val : msg \in {m \in Messages : Decodes(m)}}

\* The loop of run_indexer is at socket.recv_multipart.
AtReceive == indexer.running /\ ~txn.active

\* socket.recv_multipart(0) returns an error: `?` returns it from run_indexer
\* and the task main spawned logs it and ends.
ReceiveError ==
    /\ AtReceive
    /\ indexer' = Ended("Zmq")
    /\ resp' = Logged("Indexer error")
    /\ UNCHANGED <<blocks, transactions, taproot_outputs, txn, ingested_with, core>>

\* A message the loop passes over: fewer than two frames, another topic, or a
\* payload that does not decode (logged).
DropMessage(msg) ==
    /\ AtReceive
    /\ ~Decodes(msg)
    /\ resp' = IF Len(msg) >= 2 /\ msg[1] = "rawblock"
               THEN Logged("Failed to decode block") ELSE NoResp
    /\ UNCHANGED <<blocks, transactions, taproot_outputs, txn, indexer, ingested_with, core>>

\* process_block on a block without transactions: block.txdata[0] panics and
\* the task ends.
EmptyBlock(block) ==
    /\ AtReceive
    /\ Len(block.txdata) = 0
    /\ indexer' = Ended("panic")
    /\ resp' = NoResp
    /\ UNCHANGED <<blocks, transactions, taproot_outputs, txn, ingested_with, core>>

\* run_indexer receives and decodes a rawblock message; process_block computes
\* the height and opens the database transaction (db.begin()).
ReceiveBlock(block) ==
    /\ AtReceive
    /\ Len(block.txdata) > 0
    /\ txn' = [active |-> TRUE, block |-> block, done |-> 0,
               w_blocks |-> {}, w_transactions |-> {}, w_outputs |-> {}]
    /\ resp' = NoResp
    /\ UNCHANGED <<blocks, transactions, taproot_outputs, indexer, ingested_with, core>>

\* ExecInsert without the surrounding transaction: each INSERT is committed on
\* its own.
ExecInsertAutocommit ==
    /\ txn.active
    /\ txn.done < Len(BlockStmts(txn.block))
    /\ LET stmt == BlockStmts(txn.block)[txn.done + 1]
           new == IF Conflicts(stmt) THEN {} ELSE {stmt.row}
       IN  /\ blocks' = IF stmt.table = "blocks" THEN blocks \cup new ELSE blocks
           /\ transactions' =
                 IF stmt.table = "transactions" THEN transactions \cup new
                 ELSE transactions
           /\ taproot_outputs' =
                 IF stmt.table = "taproot_outputs" THEN taproot_outputs \cup new
                 ELSE taproot_outputs
           /\ ingested_with' =
                 IF stmt.table = "taproot_outputs"
                 THEN ingested_with \cup
                        {[txid |-> r.txid, vout |-> r.vout, hash |-> txn.block.hash] :
                            r \in new}
                 ELSE ingested_with
    /\ txn' = [txn EXCEPT !.done = txn.done + 1]
    /\ resp' = NoResp
    /\ UNCHANGED <<indexer, core>>

\* One awaited INSERT of process_block / process_transaction / process_output.
ExecInsert ==
    /\ txn.active
    /\ txn.done < Len(BlockStmts(txn.block))
    /\ txn' = [AfterInsert(BlockStmts(txn.block)[txn.done + 1])
                  EXCEPT !.done = txn.done + 1]
    /\ resp' = NoResp
    /\ UNCHANGED <<blocks, transactions, taproot_outputs, indexer, ingested_with, core>>

\* tx.commit(): the writes of the transaction become visible together.
Commit ==
    /\ txn.active
    /\ txn.done = Len(BlockStmts(txn.block))
    /\ blocks' = blocks \cup txn.w_blocks
    /\ transactions' = transactions \cup txn.w_transactions
    /\ taproot_outputs' = taproot_outputs \cup txn.w_outputs
    /\ ingested_with' = ingested_with \cup
          {[txid |-> r.txid, vout |-> r.vout, hash |-> txn.block.hash] :
              r \in txn.w_outputs}
    /\ txn' = NoTxn
    /\ resp' = NoResp
    /\ UNCHANGED <<indexer, core>>

\* Any awaited database call of process_block returns an error: `?` leaves the
\* function, the sqlx transaction is dropped and rolls back.
StorageError ==
    /\ txn.active
    /\ txn' = NoTxn
    /\ resp' = NoResp
    /\ UNCHANGED <<blocks, transactions, taproot_outputs, indexer, ingested_with, core>>

\* The storage port's markOrphaned: flags one stored block as orphaned.
MarkOrphaned(hash) ==
    /\ \E r \in blocks : r.hash = hash /\ ~r.is_orphaned
    /\ blocks' = {IF r.hash = hash THEN [r EXCEPT !.is_orphaned = TRUE] ELSE r :
                     r \in blocks}
    /\ resp' = NoResp
    /\ UNCHANGED <<transactions, taproot_outputs, txn, indexer, ingested_with, core>>


(***************************************************************************)
(* HTTP handlers (api.rs)                                                  *)
(***************************************************************************)
max_block_range == 1000
max_prefixes == 1000

ValidationError(msg) == [kind |-> "error", status |-> 400, error |-> "Validation",
                         message |-> msg]
DatabaseError == [kind |-> "error", status |-> 500, error |-> "Database"]

\* Lexicographic order of two byte strings of the same length (bytea order).
BytesLess(a, b) ==
    \E i \in 1..Len(a) : a[i] < b[i] /\ \A j \in 1..(i - 1) : a[j] = b[j]

\* ORDER BY o.block_height, o.txid, o.vout on the joined rows.
OrderByLess(r, q) ==
    \/ r.o.block_height < q.o.block_height
    \/ /\ r.o.block_height = q.o.block_height
       /\ \/ BytesLess(r.o.txid, q.o.txid)
          \/ r.o.txid = q.o.txid /\ r.o.vout < q.o.vout

\* Ordered without the ORDER BY clause: the rows in any order.
RECURSIVE Unordered(_)
Unordered(rows) ==
    IF rows = {} THEN {<<>>}
    ELSE UNION {{<<m>> \o rest : rest \in Unordered(rows \ {m})} : m \in rows}

\* Every order the database may return the rows in: ascending by the ORDER BY
\* key, rows with equal keys in any order.
RECURSIVE Ordered(_)
Ordered(rows) ==
    IF rows = {} THEN {<<>>}
    ELSE UNION {{<<m>> \o rest : rest \in Ordered(rows \ {m})} :
                   m \in {r \in rows : \A q \in rows : ~OrderByLess(q, r)}}

\* The SELECT of scan_handler: taproot_outputs joined to blocks on the height.
QueryRows(start_height, end_height, prefix_ints) ==
    {r \in [o : taproot_outputs, b : blocks] :
        /\ r.b.height = r.o.block_height
        /\ r.o.block_height >= start_height /\ r.o.block_height <= end_height
        /\ r.o.sp_prefix \in prefix_ints
        /\ r.b.is_orphaned = FALSE}

OutputCandidate(r) ==
    [txid |-> hex_encode(r.o.txid), vout |-> r.o.vout, amount |-> r.o.amount,
     script_pubkey |-> hex_encode(r.o.script_pubkey),
     block_height |-> r.o.block_height, block_hash |-> hex_encode(r.b.hash)]

\* (start_height..=end_height).collect()
RangeInclusive(a, b) == [i \in 1..(IF b >= a THEN b - a + 1 ELSE 0) |-> a + i - 1]

\* a - b on i32: whether the difference leaves the type, and its low 32 bits.
i32_sub(a, b) ==
    IF a >= 0 /\ b < 0 /\ a > I32_MAX + b
    THEN [overflow |-> TRUE, val |-> (a + I32_MIN) - (b - I32_MIN)]
    ELSE IF a < 0 /\ b > 0 /\ a < I32_MIN + b
    THEN [overflow |-> TRUE, val |-> (a - I32_MIN) - (b + I32_MIN)]
    ELSE [overflow |-> FALSE, val |-> a - b]

\* The handler's task panics: the connection is closed without a response.
Panicked == [kind |-> "panic", status |-> 0]

\* req.end_height - req.start_height as the build computes it: a build with
\* overflow checks panics on overflow, one without them wraps.
RangeDifference(req) ==
    LET d == i32_sub(req.end_height, req.start_height)
    IN  IF d.overflow THEN {[panic |-> TRUE], [panic |-> FALSE, val |-> d.val]}
        ELSE {[panic |-> FALSE, val |-> d.val]}

\* "Validate block range"
RangeTooLarge(difference) == difference > max_block_range

\* scanned_blocks of the response. A range whose length does not fit i32 is
\* written as its two ends.
ScannedBlocks(req) ==
    IF /\ i32_sub(req.end_height, req.start_height).overflow
       /\ req.start_height <= req.end_height
    THEN [first |-> req.start_height, last |-> req.end_height]
    ELSE RangeInclusive(req.start_height, req.end_height)

\* scan_handler after the range validation.
ScanValidated(req) ==
    IF Len(req.prefixes) > max_prefixes
    THEN {ValidationError("Too many prefixes")}
    ELSE LET parsed == [i \in 1..Len(req.prefixes) |->
                           i32_from_str_radix(trim_start_matches_0x(req.prefixes[i]))]
         IN  IF \E i \in 1..Len(parsed) : ~parsed[i].ok
             THEN {ValidationError("Invalid prefix format")}
             ELSE LET prefix_ints == {parsed[i].val : i \in 1..Len(parsed)}
                      rows == QueryRows(req.start_height, req.end_height, prefix_ints)
                  IN  {DatabaseError} \cup
                      {[kind |-> "scan", status |-> 200,
                        candidates |-> [i \in 1..Len(s) |-> OutputCandidate(s[i])],
                        scanned_blocks |-> ScannedBlocks(req)] :
                          s \in Ordered(rows)}

\* scan_handler: the set of responses it may return to req in the current
\* state of the tables.
scan_handler(req) ==
    UNION {IF d.panic THEN {Panicked}
           ELSE IF RangeTooLarge(d.val)
           THEN {ValidationError("Block range too large")}
           ELSE ScanValidated(req) : d \in RangeDifference(req)}

\* status_handler with MAX(height) taken over every block, orphaned or not.
status_handler_any_block ==
    LET all == {r.height : r \in blocks}
        tip == IF all = {} THEN 0 ELSE CHOOSE h \in all : \A g \in all : g <= h
    IN  {[kind |-> "status", status |-> "ok", tip_height |-> t] : t \in {tip, 0}}

\* status_handler: MAX(height) over the blocks that are not orphaned; a failed
\* query and an empty table both give 0.
status_handler ==
    LET live == {r.height : r \in {q \in blocks : ~q.is_orphaned}}
        tip == IF live = {} THEN 0 ELSE CHOOSE h \in live : \A g \in live : g <= h
    IN  {[kind |-> "status", status |-> "ok", tip_height |-> t] : t \in {tip, 0}}

(***************************************************************************)
(* Requests                                                                *)
(***************************************************************************)
MaxHeight == 2

\* The strings the client sends for the three keys of the block stream.
ClientPrefix(key) == format_08x(u32_from_be_bytes(SubSeq(key, 1, 4)))

ClientPrefixLists ==
    {<<>>, <<ClientPrefix(KeyLow)>>, <<ClientPrefix(KeyMid)>>, <<ClientPrefix(KeyHigh)>>,
     <<ClientPrefix(KeyLow), ClientPrefix(KeyMid)>>,
     <<ClientPrefix(KeyLow), ClientPrefix(KeyHigh)>>,
     <<ClientPrefix(KeyMid), ClientPrefix(KeyLow), ClientPrefix(KeyLow)>>}

\* Other prefix strings a request may carry.
OtherPrefixStrings ==
    {ClientPrefix(KeyTop),
     <<"0","x","1","2","3","4","5","6","7","8">>,
     <<"0","x","a","a","b","b","c","c","d","d">>,
     <<"A","A","B","B","C","C","D","D">>,
     <<"7","F","F","F","F","F","F","F">>,
     <<"8","0","0","0","0","0","0","0">>,
     <<"0">>,
     <<"1","f">>,
     <<"1","0","0","0","0","0","0","0","0">>,
     <<"0","0","1","2","3","4","5","6","7","8">>,
     <<>>,
     <<"0","x">>,
     <<"z","z">>,
     <<"1","2","g">>,
     <<"-","1">>,
     <<"+","1","2","3","4","5","6","7","8">>,
     <<"-","8","0","0","0","0","0","0","0">>,
     <<"-","8","0","0","0","0","0","0","1">>,
     <<"-">>,
     <<"0","x","0","x","1","2","3","4","5","6","7","8">>,
     <<"0","X","1","2","3","4","5","6","7","8">>,
     <<" ","1","2","3","4","5","6","7","8">>}

ScanRanges == {<<s, MaxHeight>> : s \in 0..MaxHeight} \cup {<<1, 1>>}

\* Ranges at the edges of the range validation and of i32.
EdgeRanges ==
    {<<0, max_block_range>>, <<0, max_block_range + 1>>, <<MaxHeight, 0>>,
     <<-1, I32_MAX>>, <<I32_MIN, 0>>, <<I32_MIN, I32_MAX>>, <<I32_MAX, I32_MIN>>,
     <<I32_MIN, I32_MIN + max_block_range>>, <<I32_MAX - max_block_range - 1, I32_MAX>>}

ScanRequest(range, prefixes) ==
    [start_height |-> range[1], end_height |-> range[2], prefixes |-> prefixes]

ScanRequests ==
    {ScanRequest(r, p) : r \in ScanRanges, p \in ClientPrefixLists}
    \cup {ScanRequest(<<0, MaxHeight>>, <<p>>) : p \in OtherPrefixStrings}
    \cup {ScanRequest(r, <<ClientPrefix(KeyLow)>>) : r \in EdgeRanges}

\* A response together with the request it answers.
Answer(req, r) == [x \in (DOMAIN r) \cup {"req"} |-> IF x = "req" THEN req ELSE r[x]]

\* POST /api/v1/scan
Scan(req) ==
    /\ resp' \in {Answer(req, r) : r \in scan_handler(req)}
    /\ UNCHANGED <<blocks, transactions, taproot_outputs, txn, indexer, ingested_with, core>>

\* GET /api/v1/status
Status ==
    /\ resp' \in status_handler
    /\ UNCHANGED <<blocks, transactions, taproot_outputs, txn, indexer, ingested_with, core>>

(***************************************************************************)
(* The server                                                              *)
(***************************************************************************)
Init ==
    /\ blocks = {}
    /\ transactions = {}
    /\ taproot_outputs = {}
    /\ txn = NoTxn
    /\ indexer = Running
    /\ ingested_with = {}
    /\ resp = NoResp
    /\ core = NoCore

\* The response leaves the server.
Respond ==
    /\ resp # NoResp
    /\ resp' = NoResp
    /\ UNCHANGED <<blocks, transactions, taproot_outputs, txn, indexer, ingested_with, core>>

\* A handler's return value is sent before the next step is looked at: no step
\* of the ingestor or of another handler reads or changes it.
Next ==
    \/ Respond
    \/ resp = NoResp /\ ReceiveError
    \/ resp = NoResp /\ \E msg \in Messages : DropMessage(msg)
    \/ resp = NoResp /\ \E block \in DecodedBlocks : EmptyBlock(block)
    \/ resp = NoResp /\ \E block \in DecodedBlocks : ReceiveBlock(block)
    \/ resp = NoResp /\ ExecInsert
    \/ resp = NoResp /\ Commit
    \/ resp = NoResp /\ StorageError
    \/ resp = NoResp /\ \E block \in BlockStream : MarkOrphaned(block.hash)
    \/ resp = NoResp /\ \E req \in ScanRequests : Scan(req)
    \/ resp = NoResp /\ Status

Spec == Init /\ [][Next]_vars

(***************************************************************************)
(* Properties of the server                                                *)
(***************************************************************************)
Elems(seq) == {seq[i] : i \in DOMAIN seq}
\* The last step was a scan, answered other than with a storage error.
Scanned == resp.kind \in {"scan", "error"} /\ resp.status # 500
Covers(req, h) == req.start_height <= h /\ h <= req.end_height
\* The Taproot outputs a block carries: <<txid, vout, script>>.
TaprootOutputsOf(block) ==
    {<<block.txdata[t].txid, v - 1, block.txdata[t].output[v].script_pubkey>> :
        <<t, v>> \in {tv \in (DOMAIN block.txdata) \X (1..2) :
            /\ tv[2] \in DOMAIN block.txdata[tv[1]].output
            /\ IsTaproot(block.txdata[tv[1]].output[tv[2]].script_pubkey)}}
Returned(out) ==
    /\ resp.kind = "scan"
    /\ \E i \in DOMAIN resp.candidates :
          /\ resp.candidates[i].txid = hex_encode(out[1])
          /\ resp.candidates[i].vout = out[2]
          /\ resp.candidates[i].script_pubkey = hex_encode(out[3])

\* C1: every Taproot output of an ingested block that is not orphaned is
\* returned, with its txid, vout and script, by a scan whose range covers the
\* block's height and whose prefixes contain the client's 8-digit encoding of
\* the first four bytes of the output's key.
C1_PrefixRoundTrip ==
    Scanned =>
        \A r \in blocks : \A out \in TaprootOutputsOf(BlockOfHash(r.hash)) :
            (/\ ~r.is_orphaned
             /\ Covers(resp.req, r.height)
             /\ ClientPrefix(SubSeq(out[3], 3, 34)) \in Elems(resp.req.prefixes))
            => Returned(out)

\* Reached: a scan for the client's encoding of AA BB CC DD was answered while
\* a block carrying such a key is stored, not orphaned, in the range.
C1_Witness ==
    /\ Scanned
    /\ ClientPrefix(KeyHigh) \in Elems(resp.req.prefixes)
    /\ \E r \in blocks : /\ ~r.is_orphaned /\ Covers(resp.req, r.height)
                         /\ \E out \in TaprootOutputsOf(BlockOfHash(r.hash)) :
                               SubSeq(out[3], 3, 34) = KeyHigh

\* The rows of a block's transactions and Taproot outputs are all stored.
Complete(block) ==
    /\ \A t \in DOMAIN block.txdata :
          \E row \in transactions : row.txid = block.txdata[t].txid
    /\ \A out \in TaprootOutputsOf(block) :
          \E row \in taproot_outputs : row.txid = out[1] /\ row.vout = out[2]
TxidsOf(block) == {block.txdata[t].txid : t \in DOMAIN block.txdata}

\* C6: a block is stored with all of its rows or with none: in every state a
\* reader can see (also while a transaction is open, and after a failed one)
\* every stored block row has all its transaction and output rows, every
\* stored transaction or output row belongs to a stored block, and every block
\* a scan reports is complete.
C6_AllOrNothing ==
    /\ \A r \in blocks : Complete(BlockOfHash(r.hash))
    /\ \A row \in transactions \cup taproot_outputs :
          \E r \in blocks : row.txid \in TxidsOf(BlockOfHash(r.hash))
    /\ resp.kind = "scan" =>
          \A i \in DOMAIN resp.candidates : \E b \in BlockStream :
              /\ hex_encode(b.hash) = resp.candidates[i].block_hash
              /\ Complete(b)

\* Reached: a scan answered with a candidate while the ingestor's transaction
\* has written some but not all rows of another block.
C6_Witness ==
    /\ resp.kind = "scan" /\ Len(resp.candidates) > 0
    /\ txn.active /\ txn.done >= 2 /\ txn.done < Len(BlockStmts(txn.block))
    /\ txn.w_transactions # {}

\* C7: no scan returns an output that was stored while ingesting a block that
\* is now orphaned.
C7_OrphanedNotReturned ==
    resp.kind = "scan" =>
        \A i \in DOMAIN resp.candidates : \A iw \in ingested_with :
            (hex_encode(iw.txid) = resp.candidates[i].txid
                /\ iw.vout = resp.candidates[i].vout)
            => \A r \in blocks : r.hash = iw.hash => ~r.is_orphaned

\* The block being committed names a parent other than the live block stored
\* one height below it.
ParentMismatch(block) ==
    \E r \in blocks : /\ r.height = BlockHeight(block) - 1
                      /\ ~r.is_orphaned
                      /\ r.hash # block.header.prev_blockhash

\* C8: when the rows of a block of a competing branch (its parent is not the
\* stored block below it) are committed, every block stored before it at its
\* height or above is already marked orphaned.
C8_ReorgMarksOrphaned ==
    [][(/\ txn.active /\ ~txn'.active
        /\ \E r \in blocks' \ blocks : r.hash = txn.block.hash
        /\ ParentMismatch(txn.block))
       => \A r \in blocks : r.height >= BlockHeight(txn.block) => r.is_orphaned]_vars

\* Order of two hex strings of the same length, digit by digit.
HexLess(a, b) ==
    \E i \in 1..Len(a) : /\ to_digit(a[i]) < to_digit(b[i])
                         /\ \A j \in 1..(i - 1) : a[j] = b[j]
CandidateLeq(c, d) ==
    \/ c.block_height < d.block_height
    \/ /\ c.block_height = d.block_height
       /\ \/ HexLess(c.txid, d.txid)
          \/ c.txid = d.txid /\ c.vout <= d.vout
RequestedInts(req) ==
    {i32_from_str_radix(trim_start_matches_0x(p)).val : p \in Elems(req.prefixes)}

\* C9: the candidates of a successful scan ascend by (block_height, txid,
\* vout), lie in [start_height, end_height] and are stored outputs whose
\* sp_prefix is one of the requested prefixes.
C9_SortedAndFiltered ==
    resp.kind = "scan" =>
        /\ \A i \in 1..(Len(resp.candidates) - 1) :
              CandidateLeq(resp.candidates[i], resp.candidates[i + 1])
        /\ \A i \in DOMAIN resp.candidates :
              /\ Covers(resp.req, resp.candidates[i].block_height)
              /\ \E o \in taproot_outputs :
                    /\ hex_encode(o.txid) = resp.candidates[i].txid
                    /\ o.vout = resp.candidates[i].vout
                    /\ o.block_height = resp.candidates[i].block_height
                    /\ o.sp_prefix \in RequestedInts(resp.req)

\* Reached: a response with three candidates, two of one height and different
\* transactions, one of another height.
C9_Witness ==
    /\ resp.kind = "scan" /\ Len(resp.candidates) >= 3
    /\ \E i, j, k \in DOMAIN resp.candidates :
          /\ resp.candidates[i].block_height = resp.candidates[j].block_height
          /\ resp.candidates[i].txid # resp.candidates[j].txid
          /\ resp.candidates[k].block_height # resp.candidates[i].block_height

\* What C10 calls an acceptable prefix string: hex digits, at least one, after
\* at most one leading 0x, with at most eight digits after the leading zeros.
StripOne0x(s) ==
    IF Len(s) >= 2 /\ s[1] = "0" /\ s[2] = "x" THEN SubSeq(s, 3, Len(s)) ELSE s
RECURSIVE StripZeros(_)
StripZeros(s) == IF Len(s) > 1 /\ s[1] = "0" THEN StripZeros(Tail(s)) ELSE s
FitsU32(s) ==
    /\ Len(s) >= 1
    /\ \A i \in DOMAIN s : to_digit(s[i]) >= 0
    /\ Len(StripZeros(s)) <= 8
\* The eight hex digit values of such a string, zero-padded on the left.
Digits8(s) ==
    LET z == StripZeros(s)
    IN  [i \in 1..8 |-> IF i <= 8 - Len(z) THEN 0 ELSE to_digit(z[i - (8 - Len(z))])]
KeyDigits8(key) == [i \in 1..8 |-> to_digit(hex_encode(SubSeq(key, 1, 4))[i])]

\* C10: a scan with one prefix string fails with 400 exactly when the string
\* is not hex digits (after at most one 0x) of a value that fits 32 bits, and
\* an accepted string selects exactly the stored outputs whose key starts
\* with the four bytes of that value.
C10_PrefixValidation ==
    (Scanned /\ Len(resp.req.prefixes) = 1) =>
        LET p == resp.req.prefixes[1] IN
        /\ resp.status = 400 <=> ~FitsU32(StripOne0x(p))
        /\ resp.kind = "scan" =>
              \A o \in taproot_outputs :
                  (/\ Covers(resp.req, o.block_height)
                   /\ \E b \in blocks : b.height = o.block_height /\ ~b.is_orphaned)
                  => (KeyDigits8(o.x_only_pubkey) = Digits8(StripOne0x(p))
                        <=> \E i \in DOMAIN resp.candidates :
                               /\ resp.candidates[i].txid = hex_encode(o.txid)
                               /\ resp.candidates[i].vout = o.vout)

\* The difference end_height - start_height, as a number, is above the limit.
DifferenceExceeds(req, limit) ==
    IF req.end_height >= 0 /\ req.start_height < 0
    THEN req.end_height > limit + req.start_height
    ELSE IF req.end_height < 0 /\ req.start_height >= 0 THEN FALSE
    ELSE req.end_height - req.start_height > limit

RangeRejection(req) == Answer(req, ValidationError("Block range too large"))

\* C11: a scan request whose difference end_height - start_height exceeds
\* MAX_BLOCK_RANGE is answered with the range Validation error (400), and a
\* request whose difference is at most MAX_BLOCK_RANGE is not rejected for its
\* range, for all i32 heights.
C11_RangeValidation ==
    (resp # NoResp /\ "req" \in DOMAIN resp) =>
        (resp = RangeRejection(resp.req))
            <=> DifferenceExceeds(resp.req, max_block_range)

\* The block has been committed before: its row is in the blocks table.
Committed(block) == \E r \in blocks : r.hash = block.hash

\* C12: once a block has been committed, every step of processing another
\* announcement of the same block (begin, each INSERT, commit or rollback)
\* leaves the blocks, transactions and taproot_outputs tables as they were.
C12_ReingestIdempotent ==
    [][(/\ txn' # txn
        /\ Committed(IF txn.active THEN txn.block ELSE txn'.block))
          => UNCHANGED <<blocks, transactions, taproot_outputs>>]_vars

\* Every INSERT of a second announcement of a committed block has been
\* executed; one of the block's transactions pays to a Taproot output.
C12_Witness ==
    /\ txn.active
    /\ Committed(txn.block)
    /\ txn.done = Len(BlockStmts(txn.block))
    /\ txn.done > 2

\* A step of the ingestor that deals with a message it received: the message
\* is passed over, or its block is handed to process_block and stored, or
\* the storage fails.
HandlesMessage ==
    \/ \E msg \in Messages : DropMessage(msg)
    \/ \E block \in DecodedBlocks : EmptyBlock(block) \/ ReceiveBlock(block)
    \/ ExecInsert
    \/ Commit
    \/ StorageError

\* C16: the ingestor isolates failures per block: whatever a received rawblock
\* message contains (bytes that do not decode, a block with an empty
\* transaction list, a coinbase without a height, a block whose storage
\* transaction fails), the ingestor is still running after it has dealt with
\* the message, so that it ingests the blocks announced afterwards.
C16_FailuresIsolated == [][HandlesMessage => indexer'.running]_vars

\* C19: an error when receiving a message is logged and skipped: the loop of
\* the ingestor continues after it, so that later block messages are received.
C19_ReceiveErrorSkipped == [][ReceiveError => indexer'.running]_vars

\* t is the greatest height of a block that is not orphaned, or 0 when there
\* is no such block.
IsTip(t) ==
    LET live == {r \in blocks : ~r.is_orphaned}
    IN  IF live = {} THEN t = 0
        ELSE (\E r \in live : r.height = t) /\ (\A r \in live : r.height <= t)

\* C17: the status query never fails: in every state it has an answer, every
\* answer has status "ok" and a tip_height that is the greatest height of the
\* blocks that are not orphaned (0 when there is none) or 0 (the storage
\* query failed), and the tip is among the answers.
C17_StatusNeverFails ==
    /\ \E r \in status_handler : IsTip(r.tip_height)
    /\ \A r \in status_handler :
          r.kind = "status" /\ r.status = "ok" /\ (IsTip(r.tip_height) \/ r.tip_height = 0)
    /\ resp.kind = "status" =>
          resp.status = "ok" /\ (IsTip(resp.tip_height) \/ resp.tip_height = 0)

\* A status answer with the tip below the height of an orphaned block.
C17_Witness ==
    /\ resp.kind = "status"
    /\ resp.tip_height > 0
    /\ \E r \in blocks : r.is_orphaned /\ r.height > resp.tip_height

\* C23: after any sequence of ingested blocks a scan response holds each
\* stored output (txid, vout) at most once, and the block_hash reported with
\* a candidate is the hash of the block the output was ingested with.
C23_OutputOnceWithItsBlock ==
    resp.kind = "scan" =>
        /\ \A i, j \in DOMAIN resp.candidates :
              (/\ resp.candidates[i].txid = resp.candidates[j].txid
               /\ resp.candidates[i].vout = resp.candidates[j].vout) => i = j
        /\ \A i \in DOMAIN resp.candidates :
              \E h \in ingested_with :
                  /\ hex_encode(h.txid) = resp.candidates[i].txid
                  /\ h.vout = resp.candidates[i].vout
                  /\ hex_encode(h.hash) = resp.candidates[i].block_hash

(***************************************************************************)
(* Cryptographic core (whisper-core/src/lib.rs)                            *)
(*                                                                         *)
(* secp256k1 and SHA-256 are scaled down: the group is the cyclic group of *)
(* prime order CurveOrder, a point is written as its discrete logarithm    *)
(* (0 is the point at infinity), the two points k and CurveOrder - k share *)
(* an x coordinate, and a digest is a 15-bit number.  Keys, scalars and    *)
(* digests keep their 32-byte encodings.                                   *)
(***************************************************************************)
CurveOrder == 32749

Ok(v) == [ok |-> TRUE, val |-> v]
Err(e) == [ok |-> FALSE, err |-> e]
None == [some |-> FALSE]
Some(v) == [some |-> TRUE, val |-> v]

\* Scalar::to_be_bytes, and the 32 bytes of a digest.
to_be_bytes(v) == Zeros(30) \o <<v \div 256, v % 256>>

\* Scalar::from_be_bytes: an error for a value that is not below the order.
Scalar_from_be_bytes(bytes) ==
    IF \E i \in 1..30 : bytes[i] # 0 THEN Err("OutOfRange")
    ELSE LET v == bytes[31] * 256 + bytes[32]
         IN  IF v >= CurveOrder THEN Err("OutOfRange") ELSE Ok(v)

\* The x coordinate of a point, as the XOnlyPublicKey of it.
XOnlyOf(k) == 4 * (IF 2 * k < CurveOrder THEN k ELSE CurveOrder - k) + 1
\* PublicKey::x_only_public_key: the x-only key and the parity.
x_only_public_key(k) ==
    <<XOnlyOf(k), IF 2 * k < CurveOrder THEN "Even" ELSE "Odd">>
\* XOnlyPublicKey::serialize
XOnly_serialize(x) == <<x \div 256, x % 256>> \o Zeros(30)
\* XOnlyPublicKey::from_slice: an error for bytes that are no x coordinate.
XOnly_from_slice(bytes) ==
    LET v == bytes[1] * 256 + bytes[2] IN
    IF /\ \A i \in 3..32 : bytes[i] = 0
       /\ v % 4 = 1
       /\ v \div 4 >= 1 /\ 2 * (v \div 4) < CurveOrder
    THEN Ok(v) ELSE Err("InvalidPublicKey")
\* PublicKey::from_x_only_public_key(x, Parity::Even)
from_x_only_public_key(x) == x \div 4
\* PublicKey::from_secret_key
from_secret_key(secret) == secret
\* The ECDH product a * P_input; an error for the point at infinity.
combine(pubkey, secret) ==
    IF (secret * pubkey) % CurveOrder = 0 THEN Err("InvalidPublicKeySum")
    ELSE Ok((secret * pubkey) % CurveOrder)
\* PublicKey::add_exp_tweak: P + t*G; an error for the point at infinity.
add_exp_tweak(pk, tweak) ==
    IF (pk + tweak) % CurveOrder = 0 THEN Err("InvalidTweak")
    ELSE Ok((pk + tweak) % CurveOrder)

\* sha256::Hash::hash, scaled down to a hash tree over the bytes with a 15-bit
\* compression function; the length is compressed into the root.
Compress(l, r) == (l * 1103 + (l \div 64) + r * 251 + 12338) % 32768
RECURSIVE Digest(_, _, _)
Digest(bytes, lo, hi) ==
    IF lo > hi THEN 27145
    ELSE IF lo = hi THEN Compress(27145, bytes[lo])
    ELSE LET mid == (lo + hi) \div 2
         IN  Compress(Digest(bytes, lo, mid), Digest(bytes, mid + 1, hi))
sha256(bytes) == to_be_bytes(Compress(Digest(bytes, 1, Len(bytes)), Len(bytes)))

\* "BIP0352/SharedSecret" and "BIP0352/Outputs" as bytes
SHARED_SECRET ==
    <<66, 73, 80, 48, 51, 53, 50, 47, 83, 104, 97, 114, 101, 100, 83, 101, 99, 114,
      101, 116>>
OUTPUT == <<66, 73, 80, 48, 51, 53, 50, 47, 79, 117, 116, 112, 117, 116, 115>>

\* TaggedHash::hash
TaggedHash_hash(tag, data) ==
    LET tag_hash == sha256(tag)
    IN  sha256(tag_hash \o tag_hash \o data)

\* ScanKey::new
ScanKey_new(secret) ==
    [secret |-> secret, public |-> x_only_public_key(from_secret_key(secret))[1]]

InputData(pubkey) == [pubkey |-> pubkey, is_taproot |-> TRUE]

\* The loop of compute_shared_secret passing over an input that occurred
\* earlier in the list.
RECURSIVE AccumulateDistinct(_, _, _, _)
AccumulateDistinct(self, inputs, i, accumulated_scalar) ==
    IF i > Len(inputs) THEN Ok(accumulated_scalar)
    ELSE IF \E j \in 1..(i - 1) : inputs[j] = inputs[i]
    THEN AccumulateDistinct(self, inputs, i + 1, accumulated_scalar)
    ELSE LET shared_point == combine(inputs[i].pubkey, self.secret) IN
         IF ~shared_point.ok THEN Err("CryptoError")
         ELSE LET d_bytes == XOnly_serialize(x_only_public_key(shared_point.val)[1])
                  t_i == Scalar_from_be_bytes(TaggedHash_hash(SHARED_SECRET, d_bytes))
              IN  IF ~t_i.ok THEN Err("CryptoError")
                  ELSE AccumulateDistinct(self, inputs, i + 1,
                          IF accumulated_scalar.some
                          THEN Some((accumulated_scalar.val + t_i.val) % CurveOrder)
                          ELSE Some(t_i.val))

\* The loop of compute_shared_secret from input i on.
RECURSIVE Accumulate(_, _, _, _)
Accumulate(self, inputs, i, accumulated_scalar) ==
    IF i > Len(inputs) THEN Ok(accumulated_scalar)
    ELSE LET shared_point == combine(inputs[i].pubkey, self.secret) IN
         IF ~shared_point.ok THEN Err("CryptoError")
         ELSE LET d_bytes == XOnly_serialize(x_only_public_key(shared_point.val)[1])
                  t_i == Scalar_from_be_bytes(TaggedHash_hash(SHARED_SECRET, d_bytes))
              IN  IF ~t_i.ok THEN Err("CryptoError")
                  ELSE Accumulate(self, inputs, i + 1,
                          IF accumulated_scalar.some
                          THEN Some((accumulated_scalar.val + t_i.val) % CurveOrder)
                          ELSE Some(t_i.val))

\* compute_shared_secret without the test for an empty list: the unwrap of the
\* accumulator panics.
compute_shared_secret_unguarded(self, inputs) ==
    LET acc == Accumulate(self, inputs, 1, None)
    IN  IF ~acc.ok THEN acc
        ELSE IF acc.val.some THEN Ok(to_be_bytes(acc.val.val)) ELSE Err("Panic")

\* ScanKey::compute_shared_secret
compute_shared_secret(self, inputs) ==
    IF Len(inputs) = 0 THEN Err("InvalidInput")
    ELSE LET acc == Accumulate(self, inputs, 1, None)
         IN  IF acc.ok THEN Ok(to_be_bytes(acc.val.val)) ELSE acc

\* The tweak computed from the shared secret alone, whatever the label is.
TweakBytesUnlabelled(shared_secret, label) == TaggedHash_hash(OUTPUT, shared_secret)

\* "Compute tweak": the tagged hash of the shared secret, with the label byte
\* appended when there is a label.
TweakBytes(shared_secret, label) ==
    IF label.some THEN TaggedHash_hash(OUTPUT, shared_secret \o <<label.val>>)
    ELSE TaggedHash_hash(OUTPUT, shared_secret)

\* ScanKey::derive_output_pubkey
derive_output_pubkey(self, shared_secret, spend_pubkey, label) ==
    LET tweak == Scalar_from_be_bytes(TweakBytes(shared_secret, label)) IN
    IF ~tweak.ok THEN Err("CryptoError")
    ELSE LET pk == from_x_only_public_key(spend_pubkey)
             output_pk == add_exp_tweak(pk, tweak.val)
         IN  IF ~output_pk.ok THEN Err("CryptoError")
             ELSE Ok(x_only_public_key(output_pk.val)[1])

\* The loop of check_output reporting the unlabelled tweak for every label.
RECURSIVE TryLabelsUnlabelledTweak(_, _, _, _, _, _)
TryLabelsUnlabelledTweak(self, candidate_xonly, shared_secret, spend_pubkey, labels, i) ==
    IF i > Len(labels) THEN Ok(None)
    ELSE LET expected_output ==
                 derive_output_pubkey(self, shared_secret, spend_pubkey, labels[i])
         IN  IF ~expected_output.ok THEN expected_output
             ELSE IF expected_output.val = candidate_xonly
             THEN Ok(Some([txid |-> Zeros(32), vout |-> 0, amount |-> 0,
                           label |-> labels[i],
                           tweak |-> TweakBytes(shared_secret, None),
                           output_pubkey |-> candidate_xonly]))
             ELSE TryLabelsUnlabelledTweak(self, candidate_xonly, shared_secret,
                                           spend_pubkey, labels, i + 1)

\* "Try each label": the loop of check_output from label i on.
RECURSIVE TryLabels(_, _, _, _, _, _)
TryLabels(self, candidate_xonly, shared_secret, spend_pubkey, labels, i) ==
    IF i > Len(labels) THEN Ok(None)
    ELSE LET expected_output ==
                 derive_output_pubkey(self, shared_secret, spend_pubkey, labels[i])
         IN  IF ~expected_output.ok THEN expected_output
             ELSE IF expected_output.val = candidate_xonly
             THEN Ok(Some([txid |-> Zeros(32), vout |-> 0, amount |-> 0,
                           label |-> labels[i],
                           tweak |-> TweakBytes(shared_secret, labels[i]),
                           output_pubkey |-> candidate_xonly]))
             ELSE TryLabels(self, candidate_xonly, shared_secret, spend_pubkey,
                            labels, i + 1)

\* check_output computing the shared secret before it looks at the script.
check_output_secret_first(self, candidate_script_pubkey, spend_pubkey, inputs, labels) ==
    LET shared_secret == compute_shared_secret(self, inputs) IN
    IF ~shared_secret.ok THEN shared_secret
    ELSE IF \/ Len(candidate_script_pubkey) # 34
            \/ candidate_script_pubkey[1] # 81
            \/ candidate_script_pubkey[2] # 32
    THEN Ok(None)
    ELSE LET candidate_xonly == XOnly_from_slice(SubSeq(candidate_script_pubkey, 3, 34))
         IN  IF ~candidate_xonly.ok THEN Err("InvalidKey")
             ELSE TryLabels(self, candidate_xonly.val, shared_secret.val,
                            spend_pubkey, labels, 1)

\* ScanKey::check_output
check_output(self, candidate_script_pubkey, spend_pubkey, inputs, labels) ==
    IF \/ Len(candidate_script_pubkey) # 34
       \/ candidate_script_pubkey[1] # 81
       \/ candidate_script_pubkey[2] # 32
    THEN Ok(None)
    ELSE LET candidate_xonly == XOnly_from_slice(SubSeq(candidate_script_pubkey, 3, 34))
         IN  IF ~candidate_xonly.ok THEN Err("InvalidKey")
             ELSE LET shared_secret == compute_shared_secret(self, inputs) IN
                  IF ~shared_secret.ok THEN shared_secret
                  ELSE TryLabels(self, candidate_xonly.val, shared_secret.val,
                                 spend_pubkey, labels, 1)

\* prefix_from_xonly
prefix_from_xonly(xonly) == u32_from_be_bytes(SubSeq(XOnly_serialize(xonly), 1, 4))

\* The loop of compute_prefixes running over 0..max_label with Some(m - 1).
LabelOffByOne(m) == IF m = 0 THEN None ELSE Some(m - 1)

\* The label of the m-th derivation of compute_prefixes: none, then 1..=max_label.
LabelOf(m) == IF m = 0 THEN None ELSE Some(m)

\* compute_prefixes: `?` returns the error of the first derivation that fails.
compute_prefixes(scan_key, spend_pubkey, inputs, max_label) ==
    LET shared_secret == compute_shared_secret(scan_key, inputs) IN
    IF ~shared_secret.ok THEN shared_secret
    ELSE LET output == [m \in 0..max_label |->
                          derive_output_pubkey(scan_key, shared_secret.val,
                                               spend_pubkey, LabelOf(m))]
             failed == {m \in 0..max_label : ~output[m].ok}
         IN  IF failed # {}
             THEN output[CHOOSE m \in failed : \A k \in failed : m <= k]
             ELSE Ok([i \in 1..(max_label + 1) |-> prefix_from_xonly(output[i - 1].val)])

(***************************************************************************)
(* Calls of the core                                                       *)
(***************************************************************************)
MaxInputs == 2
MaxLabel == 3

ScanKeys == {ScanKey_new(257), ScanKey_new(4112)}
\* Input public keys: two whose per-input hash is an ordinary scalar and one
\* whose hash is not below the group order.
InputKeys == {771, 1028, 1111}
SpendKeys == {XOnlyOf(514), XOnlyOf(1285)}

RECURSIVE SeqsUpTo(_, _)
SeqsUpTo(S, k) ==
    IF k = 0 THEN {<<>>}
    ELSE LET shorter == SeqsUpTo(S, k - 1)
         IN  shorter \cup {Append(q, x) : q \in shorter, x \in S}

InputLists == SeqsUpTo({InputData(k) : k \in InputKeys}, MaxInputs)
\* Input lists with the public key whose per-input hash is 0 under the scan
\* secret 257.
ZeroHashInputLists == {<<InputData(1041)>>, <<InputData(771), InputData(1041)>>}
Labels == {None, Some(255)} \cup {Some(m) : m \in 0..MaxLabel}
\* (0..=max_label).map(|m| if m == 0 { None } else { Some(m) })
ClientLabels == [i \in 1..(MaxLabel + 1) |-> IF i = 1 THEN None ELSE Some(i - 1)]
Reverse(q) == [i \in 1..Len(q) |-> q[Len(q) + 1 - i]]
LabelLists ==
    {<<>>, ClientLabels, Reverse(ClientLabels), <<Some(0)>> \o ClientLabels,
     <<Some(2), Some(2), None>>, <<None>>, <<Some(0)>>, <<Some(255)>>}

\* The shared secrets the input lists give, and two other 32-byte strings.
SharedSecrets ==
    {compute_shared_secret(k, inputs).val :
        <<k, inputs>> \in {ki \in ScanKeys \X InputLists :
                              compute_shared_secret(ki[1], ki[2]).ok}}
    \cup {Zeros(32), [i \in 1..32 |-> 255]}

\* The scripts a sender pays to for the given scan key and inputs.
SenderScripts(self, inputs) ==
    LET shared_secret == compute_shared_secret(self, inputs) IN
    IF ~shared_secret.ok THEN {}
    ELSE {TaprootScript(XOnly_serialize(p.val)) :
            p \in {q \in {derive_output_pubkey(self, shared_secret.val, b, l) :
                            b \in SpendKeys, l \in Labels} : q.ok}}

\* Scripts that are no payment to the scan key: not Taproot, Taproot with bytes
\* that are no key, Taproot with somebody else's key.
OtherScripts ==
    {<<>>, P2wpkhScript, V0Script34, <<81, 33>> \o XOnly_serialize(XOnlyOf(514)),
     <<81, 32>> \o Zeros(31), TaprootScript(KeyLow),
     TaprootScript(XOnly_serialize(XOnlyOf(9999)))}

Idle == [fn |-> "none"]

CallComputeSharedSecret(inputs) ==
    /\ core' = [core EXCEPT !.call = [fn |-> "compute_shared_secret",
                                       inputs |-> inputs],
                            !.ret = compute_shared_secret(core.scan_key, inputs)]
    /\ UNCHANGED <<blocks, transactions, taproot_outputs, txn, indexer, ingested_with, resp>>

CallDeriveOutputPubkey(shared_secret, spend_pubkey, label) ==
    /\ core' = [core EXCEPT !.call = [fn |-> "derive_output_pubkey",
                                       shared_secret |-> shared_secret,
                                       spend_pubkey |-> spend_pubkey,
                                       label |-> label],
                            !.ret = derive_output_pubkey(core.scan_key, shared_secret,
                                                         spend_pubkey, label)]
    /\ UNCHANGED <<blocks, transactions, taproot_outputs, txn, indexer, ingested_with, resp>>

CallCheckOutput(script, spend_pubkey, inputs, labels) ==
    /\ core' = [core EXCEPT !.call = [fn |-> "check_output",
                                       script |-> script,
                                       spend_pubkey |-> spend_pubkey,
                                       inputs |-> inputs, labels |-> labels],
                            !.ret = check_output(core.scan_key, script, spend_pubkey,
                                                 inputs, labels)]
    /\ UNCHANGED <<blocks, transactions, taproot_outputs, txn, indexer, ingested_with, resp>>

\* max_label: u8, at its ends and in between.
MaxLabels == {0, 1, MaxLabel, 255}

CallComputePrefixes(spend_pubkey, inputs, max_label) ==
    /\ core' = [core EXCEPT !.call = [fn |-> "compute_prefixes",
                                       spend_pubkey |-> spend_pubkey,
                                       inputs |-> inputs, max_label |-> max_label],
                            !.ret = compute_prefixes(core.scan_key, spend_pubkey,
                                                     inputs, max_label)]
    /\ UNCHANGED <<blocks, transactions, taproot_outputs, txn, indexer, ingested_with, resp>>

\* The call returns to its caller.
Return ==
    /\ core.call # Idle
    /\ core' = [core EXCEPT !.call = Idle, !.ret = None]
    /\ UNCHANGED <<blocks, transactions, taproot_outputs, txn, indexer, ingested_with, resp>>

InitCore ==
    /\ blocks = {}
    /\ transactions = {}
    /\ taproot_outputs = {}
    /\ txn = NoTxn
    /\ indexer = Running
    /\ ingested_with = {}
    /\ resp = NoResp
    /\ core \in {[scan_key |-> k, call |-> Idle, ret |-> None] :
                   k \in ScanKeys}

NextCore ==
    \/ Return
    \/ /\ core.call = Idle
       /\ \E inputs \in InputLists \cup ZeroHashInputLists :
             CallComputeSharedSecret(inputs)
    \/ /\ core.call = Idle
       /\ \E shared_secret \in SharedSecrets, spend_pubkey \in SpendKeys,
             label \in Labels :
             CallDeriveOutputPubkey(shared_secret, spend_pubkey, label)
    \/ /\ core.call = Idle
       /\ \E inputs \in InputLists :
             \E script \in SenderScripts(core.scan_key, inputs) \cup OtherScripts :
                 \E spend_pubkey \in SpendKeys, labels \in LabelLists :
                     CallCheckOutput(script, spend_pubkey, inputs, labels)
    \/ /\ core.call = Idle
       /\ \E inputs \in InputLists, spend_pubkey \in SpendKeys :
             \E max_label \in IF Len(inputs) = 1 THEN MaxLabels ELSE MaxLabels \ {255} :
                 CallComputePrefixes(spend_pubkey, inputs, max_label)

SpecCore == InitCore /\ [][NextCore]_vars

(***************************************************************************)
(* Scanner client (whisper-client/src/lib.rs)                              *)
(***************************************************************************)
\* hex::decode: an error for an odd length or a character that is no hex digit.
hex_decode(str) ==
    IF Len(str) % 2 = 1 THEN Err("OddLength")
    ELSE IF \E i \in 1..Len(str) : to_digit(str[i]) < 0 THEN Err("InvalidHexCharacter")
    ELSE Ok([i \in 1..(Len(str) \div 2) |->
                16 * to_digit(str[2 * i - 1]) + to_digit(str[2 * i])])

\* A u32 from a small number, as its two 16-bit halves.
U32(v) == [hi |-> v \div 65536, lo |-> v % 65536]
\* `as i32` of a u32: the same 32 bits.
u32_as_i32(u) == (IF u.hi >= 32768 THEN u.hi - 65536 ELSE u.hi) * 65536 + u.lo
\* `as u32` of an i32: the same 32 bits.
i32_as_u32(v) ==
    IF v >= 0 THEN U32(v)
    ELSE [hi |-> ((v - I32_MIN) \div 65536) + 32768, lo |-> (v - I32_MIN) % 65536]
\* `as u64` of an i64: a negative amount a becomes 2^64 + a.
i64_as_u64(a) == IF a >= 0 THEN [wrapped |-> FALSE, val |-> a] ELSE [wrapped |-> TRUE, val |-> a]

\* SilentPaymentClient::new
SilentPaymentClient(scan_key, spend_key, max_label) ==
    [scan_key |-> scan_key, spend_key |-> spend_key, max_label |-> max_label]

\* The request scan_range sends.
ClientRequest(self, start_height, end_height, prefixes) ==
    [scan_pubkey |-> hex_encode(XOnly_serialize(self.scan_key.public)),
     start_height |-> u32_as_i32(start_height),
     end_height |-> u32_as_i32(end_height),
     prefixes |-> [i \in 1..Len(prefixes) |-> format_08x(prefixes[i])],
     include_proofs |-> Some(FALSE)]

\* "Fill in metadata": the outcome of a candidate that check_output matched.
\* push: a result; error or panic: scan_range ends with it.
FillMetadata(candidate, scan_result) ==
    LET txid_bytes == hex_decode(candidate.txid) IN
    IF ~txid_bytes.ok THEN [kind |-> "error", err |-> "InvalidResponse"]
    \* copy_from_slice panics when the lengths differ
    ELSE IF Len(txid_bytes.val) # 32 THEN [kind |-> "panic"]
    ELSE [kind |-> "push",
          result |-> [scan_result EXCEPT !.txid = txid_bytes.val,
                                         !.vout = i32_as_u32(candidate.vout),
                                         !.amount = i64_as_u64(candidate.amount)]]

\* The outcome of a candidate whose script check_output has looked at.
\* skip: no match.
Checked(candidate, checked) ==
    IF ~checked.ok THEN [kind |-> "error", err |-> <<"Core", checked.err>>]
    ELSE IF ~checked.val.some THEN [kind |-> "skip"]
    ELSE FillMetadata(candidate, checked.val.val)

\* The outcome of a candidate whose script has been decoded.
Decoded(self, candidate, script_bytes, inputs, labels) ==
    IF ~script_bytes.ok THEN [kind |-> "error", err |-> "InvalidResponse"]
    ELSE Checked(candidate,
                 check_output(self.scan_key, script_bytes.val, self.spend_key,
                              inputs, labels))

\* One pass of the loop that takes the server's word: every candidate with a
\* Taproot script is reported as an unlabelled payment, without check_output.
VerifyCandidateUnchecked(self, candidate, inputs, labels) ==
    IF ~hex_decode(candidate.script_pubkey).ok
    THEN [kind |-> "error", err |-> "InvalidResponse"]
    ELSE IF ~IsTaproot(hex_decode(candidate.script_pubkey).val)
    THEN [kind |-> "skip"]
    ELSE FillMetadata(candidate,
            [txid |-> Zeros(32), vout |-> 0, amount |-> 0, label |-> None,
             tweak |-> Zeros(32),
             output_pubkey |->
                 u32_from_be_bytes(SubSeq(hex_decode(candidate.script_pubkey).val, 3, 6)).hi])

\* One pass of "for candidate in response.candidates".
VerifyCandidate(self, candidate, inputs, labels) ==
    Decoded(self, candidate, hex_decode(candidate.script_pubkey), inputs, labels)

\* The value of the loop over the candidates, given each candidate's outcome:
\* the first error or panic, or else the results pushed, in order.
Results(outcome) ==
    LET stops == {i \in 1..Len(outcome) : outcome[i].kind \in {"error", "panic"}}
        pushed == {i \in 1..Len(outcome) : outcome[i].kind = "push"}
        nth(k) == CHOOSE i \in pushed : Cardinality({j \in pushed : j <= i}) = k
    IN  IF stops # {}
        THEN LET first == outcome[CHOOSE i \in stops : \A j \in stops : i <= j]
             IN  IF first.kind = "panic" THEN Err("Panic") ELSE Err(first.err)
        ELSE Ok([k \in 1..Cardinality(pushed) |-> outcome[nth(k)].result])

\* The part of scan_range after compute_prefixes.
Scanned_range(self, prefixes, inputs, http) ==
    IF ~prefixes.ok THEN Err(<<"Core", prefixes.err>>)
    ELSE IF http.kind # "scan" THEN Err("Http")
    ELSE Results([i \in 1..Len(http.candidates) |->
                    VerifyCandidate(self, http.candidates[i], inputs,
                                    [m \in 1..(self.max_label + 1) |-> LabelOf(m - 1)])])

\* SilentPaymentClient::scan_range, given what the HTTP exchange returns.
scan_range(self, start_height, end_height, inputs, http) ==
    Scanned_range(self,
                  compute_prefixes(self.scan_key, self.spend_key, inputs, self.max_label),
                  inputs, http)

\* The clients of the model and what they scan.
MaxCandidates == 2
ClientSpendKey == XOnlyOf(514)
ClientMaxLabels == {0, MaxLabel}
ClientInputLists ==
    {<<>>, <<InputData(771)>>, <<InputData(1111)>>, <<InputData(771), InputData(1028)>>}
ClientRanges == {<<U32(0), U32(MaxHeight)>>, <<U32(1), [hi |-> 65535, lo |-> 65535]>>}

\* A candidate of a scan response.
Candidate(txid, vout, script) ==
    [txid |-> txid, vout |-> vout, amount |-> 1000 * (vout + 1),
     script_pubkey |-> hex_encode(script), block_height |-> 1,
     block_hash |-> hex_encode(Id32(161))]

\* The script of a payment to the client over the inputs under the label, or
\* of a payment to nobody when there is none.
PaymentScript(self, inputs, label) ==
    LET shared_secret == compute_shared_secret(self.scan_key, inputs)
        P == IF shared_secret.ok
             THEN derive_output_pubkey(self.scan_key, shared_secret.val,
                                       self.spend_key, label)
             ELSE shared_secret
    IN  TaprootScript(XOnly_serialize(IF P.ok THEN P.val ELSE XOnlyOf(9999)))

\* Candidates a server may return: payments to the client with and without a
\* label, a Taproot script whose key bytes are no point, a payment to somebody
\* else, a script that is no hex string, a payment with a txid of 31 bytes,
\* a payment with a txid that is no hex string.
CandidatePool(self, inputs) ==
    {Candidate(hex_encode(Id32(1)), 0, PaymentScript(self, inputs, None)),
     Candidate(hex_encode(Id32(3)), 1, PaymentScript(self, inputs, Some(1))),
     Candidate(hex_encode(Id32(4)), 0, TaprootScript(KeyLow)),
     Candidate(hex_encode(Id32(5)), 0, TaprootScript(XOnly_serialize(XOnlyOf(9999)))),
     [Candidate(hex_encode(Id32(2)), 0, P2wpkhScript) EXCEPT !.script_pubkey = <<"z", "z">>],
     Candidate(hex_encode(Zeros(31)), 0, PaymentScript(self, inputs, None)),
     Candidate(<<"0", "g">>, 0, PaymentScript(self, inputs, None))}

\* What the HTTP exchange gives the client: no connection, an error status,
\* or a scan response.
HttpOutcomes(self, inputs) ==
    {[kind |-> "failure"], [kind |-> "error", status |-> 400]}
    \cup {[kind |-> "scan", candidates |-> c] :
             c \in SeqsUpTo(CandidatePool(self, inputs), MaxCandidates)}

CallScanRange(self, range, inputs, http) ==
    /\ core' = [core EXCEPT !.call = [fn |-> "scan_range", self |-> self,
                                       request |-> ClientRequest(self, range[1], range[2],
                                            LET p == compute_prefixes(self.scan_key,
                                                        self.spend_key, inputs, self.max_label)
                                            IN  IF p.ok THEN p.val ELSE <<>>),
                                       inputs |-> inputs, http |-> http],
                            !.ret = scan_range(self, range[1], range[2], inputs, http)]
    /\ UNCHANGED <<blocks, transactions, taproot_outputs, txn, indexer, ingested_with, resp>>

NextClient ==
    \/ Return
    \/ /\ core.call = Idle
       /\ \E max_label \in ClientMaxLabels, inputs \in ClientInputLists,
             range \in ClientRanges :
             \E self \in {SilentPaymentClient(core.scan_key, ClientSpendKey, max_label)} :
                 \E http \in HttpOutcomes(self, inputs) :
                     CallScanRange(self, range, inputs, http)

SpecClient == InitCore /\ [][NextClient]_vars

(***************************************************************************)
(* Ingestion of blocks with any coinbase                                   *)
(***************************************************************************)
MaxBlocks == 1

\* Coinbase scriptSigs: pushes of one to four bytes with the top bit of the
\* last byte clear or set, pushes with bytes after them, first bytes that are
\* no length of 1..4, lengths with too few bytes after them, and no byte.
HeightScripts ==
    {<<>>, <<0>>, <<1>>, <<1, 0>>, <<1, 5>>, <<1, 128>>, <<1, 255>>,
     <<2, 1>>, <<2, 1, 2>>, <<2, 255, 255>>, <<2, 0, 128>>,
     <<3, 1, 2>>, <<3, 1, 2, 3>>, <<3, 0, 0, 128>>, <<3, 255, 255, 255>>,
     <<3, 64, 13, 3, 99>>,
     <<4, 1, 2, 3>>, <<4, 1, 0, 0, 0>>, <<4, 1, 2, 3, 4>>, <<4, 255, 255, 255, 127>>,
     <<4, 0, 0, 0, 128>>, <<4, 255, 255, 255, 255>>, <<4, 1, 2, 3, 200, 7>>,
     <<5, 1, 2, 3, 4, 5>>, <<76, 1, 1>>, <<255, 1, 2, 3, 4>>}

\* First transactions of a block: a coinbase with each scriptSig, and
\* transactions that are no coinbase although their scriptSig holds a push.
FirstTransactions ==
    {[txid |-> Id32(6), input |-> <<CoinbaseIn(sig)>>,
      output |-> <<TxOut(TaprootScript(KeyLow), 50)>>] : sig \in HeightScripts}
    \cup {[txid |-> Id32(7),
           input |-> <<[prevout_null |-> FALSE, script_sig |-> <<1, 5>>]>>,
           output |-> <<TxOut(TaprootScript(KeyLow), 50)>>],
          [txid |-> Id32(8),
           input |-> <<CoinbaseIn(<<1, 5>>), SpendIn>>,
           output |-> <<TxOut(TaprootScript(KeyLow), 50)>>],
          [txid |-> Id32(9), input |-> <<>>,
           output |-> <<TxOut(TaprootScript(KeyLow), 50)>>]}

\* One block for each first transaction; the block hash stands for the
\* header and the transactions hashed.
CoinbaseBlocks ==
    {[hash |-> LET sig == IF tx.input = <<>> THEN <<>> ELSE tx.input[1].script_sig
               IN  <<33, tx.txid[1], Len(tx.input), Len(sig)>> \o sig
                       \o Zeros(28 - Len(sig)),
      header |-> Header(Id32(0)), txdata |-> <<tx>>] : tx \in FirstTransactions}

\* The ingestor fed with these blocks.
NextCoinbase ==
    \/ /\ Cardinality(blocks) < MaxBlocks
       /\ \E block \in CoinbaseBlocks : ReceiveBlock(block)
    \/ ExecInsert
    \/ Commit
    \/ StorageError

SpecCoinbase == Init /\ [][NextCoinbase]_vars

(***************************************************************************)
(* Properties of the core                                                  *)
(***************************************************************************)

\* C2: derive_output_pubkey called with the label Some(0) fails with
\* InvalidInput and returns no output key, whatever the shared secret and the
\* spend pubkey are.
C2_LabelZeroRejected ==
    (core.call.fn = "derive_output_pubkey" /\ core.call.label = Some(0))
        => core.ret = Err("InvalidInput")

\* The match check_output reports for the output key P paid under label m.
Match(P, m, shared_secret) ==
    Ok(Some([txid |-> Zeros(32), vout |-> 0, amount |-> 0, label |-> m,
             tweak |-> TweakBytes(shared_secret, m), output_pubkey |-> P]))

\* C3: when P is the output key derived from the shared secret of a non-empty
\* input list, a spend pubkey and a label m (absent or 1..255), check_output on
\* the script 0x51 0x20 || P with the same inputs and spend pubkey and a label
\* list containing m returns a match with output_pubkey P, label m and the
\* tweak P was derived with.
C3_RoundTrip ==
    core.call.fn = "check_output" =>
        LET c == core.call
            shared_secret == compute_shared_secret(core.scan_key, c.inputs)
        IN  (Len(c.inputs) > 0 /\ shared_secret.ok) =>
                \A i \in 1..Len(c.labels) :
                    LET m == c.labels[i]
                        P == derive_output_pubkey(core.scan_key, shared_secret.val,
                                                  c.spend_pubkey, m)
                    IN  (/\ m # Some(0)
                         /\ P.ok
                         /\ c.script = <<81, 32>> \o XOnly_serialize(P.val))
                            => core.ret = Match(P.val, m, shared_secret.val)

\* A payment to a label that is not the first of several tried, over two
\* inputs, is matched.
C3_Witness ==
    /\ core.call.fn = "check_output"
    /\ Len(core.call.inputs) = 2
    /\ Len(core.call.labels) > 2
    /\ core.ret.ok
    /\ core.ret.val.some
    /\ core.ret.val.val.label = Some(1)
    /\ core.call.labels[1] # Some(1)

\* C4: check_output returns no match, and no error, for every script that is
\* not 34 bytes long with first byte 0x51 and second byte 0x20, whatever the
\* spend pubkey, the inputs (an empty list included) and the labels are.
C4_NonTaprootNoMatch ==
    (/\ core.call.fn = "check_output"
     /\ \/ Len(core.call.script) # 34
        \/ core.call.script[1] # 81
        \/ core.call.script[2] # 32)
        => core.ret = Ok(None)

\* A 34-byte script with the wrong second byte, checked with no inputs.
C4_Witness ==
    /\ core.call.fn = "check_output"
    /\ Len(core.call.script) = 34
    /\ core.call.script[1] = 81
    /\ core.call.script[2] # 32
    /\ core.call.inputs = <<>>
    /\ core.call.labels # <<>>
    /\ core.ret = Ok(None)

\* C5: compute_shared_secret fails with InvalidInput exactly when the input
\* list is empty; a non-empty list gives 32 bytes or a CryptoError.
C5_InvalidInputIffEmpty ==
    core.call.fn = "compute_shared_secret" =>
        /\ (core.ret = Err("InvalidInput")) <=> (Len(core.call.inputs) = 0)
        /\ Len(core.call.inputs) > 0 =>
              \/ core.ret.ok /\ Len(core.ret.val) = 32
              \/ core.ret = Err("CryptoError")

\* A non-empty list whose second input hashes to no scalar fails with
\* CryptoError.
C5_Witness ==
    /\ core.call.fn = "compute_shared_secret"
    /\ Len(core.call.inputs) = 2
    /\ core.ret = Err("CryptoError")

\* The first four bytes of an output key, big-endian, as the halves of a u32.
FirstFour(xonly) ==
    LET k == XOnly_serialize(xonly)
    IN  [hi |-> k[1] * 256 + k[2], lo |-> k[3] * 256 + k[4]]

\* C13: compute_prefixes returns 1 + max_label prefixes for every max_label in
\* 0..255: entry 0 is the first four bytes, big-endian, of the output key
\* derived with no label and entry m that of the key derived with label m, for
\* m = 1..max_label in increasing order. It fails only when the shared secret
\* or one of these derivations fails.
C13_PrefixesPerLabel ==
    core.call.fn = "compute_prefixes" =>
        LET c == core.call
            shared_secret == compute_shared_secret(core.scan_key, c.inputs)
            P(label) == derive_output_pubkey(core.scan_key, shared_secret.val,
                                             c.spend_pubkey, label)
        IN  IF core.ret.ok
            THEN /\ Len(core.ret.val) = 1 + c.max_label
                 /\ shared_secret.ok
                 /\ P(None).ok /\ core.ret.val[1] = FirstFour(P(None).val)
                 /\ \A m \in 1..c.max_label :
                       P(Some(m)).ok /\ core.ret.val[m + 1] = FirstFour(P(Some(m)).val)
            ELSE \/ ~shared_secret.ok
                 \/ ~P(None).ok
                 \/ \E m \in 1..c.max_label : ~P(Some(m)).ok

\* 256 prefixes are returned for max_label = 255.
C13_Witness ==
    /\ core.call.fn = "compute_prefixes"
    /\ core.call.max_label = 255
    /\ core.ret.ok
    /\ Len(core.ret.val) = 256
    /\ core.ret.val[1] # core.ret.val[256]

\* C14: for a shared secret and a spend pubkey, the output keys derived with
\* two distinct labels among absent and 1..255 differ.
C14_LabelUniqueness ==
    (/\ core.call.fn = "derive_output_pubkey"
     /\ core.call.label # Some(0)
     /\ core.ret.ok) =>
        \A other \in Labels \ {core.call.label, Some(0)} :
            LET Q == derive_output_pubkey(core.scan_key, core.call.shared_secret,
                                          core.call.spend_pubkey, other)
            IN  Q.ok => Q.val # core.ret.val

\* A key derived with label 255 from the shared secret of an input list.
C14_Witness ==
    /\ core.call.fn = "derive_output_pubkey"
    /\ core.call.label = Some(255)
    /\ core.call.shared_secret \notin {Zeros(32), [i \in 1..32 |-> 255]}
    /\ core.ret.ok

\* The number the tagged hash of an input's shared point is, before it is
\* read as a scalar.
InputHash(self, input) ==
    LET d_bytes == XOnly_serialize(x_only_public_key(combine(input.pubkey, self.secret).val)[1])
        t_i_bytes == TaggedHash_hash(SHARED_SECRET, d_bytes)
    IN  t_i_bytes[31] * 256 + t_i_bytes[32]

\* The sum modulo the group order of the hashes of the inputs from i on, each
\* reduced modulo the group order.
RECURSIVE ReducedSum(_, _, _)
ReducedSum(self, inputs, i) ==
    IF i > Len(inputs) THEN 0
    ELSE ((InputHash(self, inputs[i]) % CurveOrder) + ReducedSum(self, inputs, i + 1))
             % CurveOrder

\* C20: in compute_shared_secret the tagged hash of each input is read as a
\* scalar modulo the group order: a hash that is not below the order is
\* reduced and the computation goes on with it, and the computation fails
\* with CryptoError when a reduced hash is 0.
C20_HashReducedModOrder ==
    (/\ core.call.fn = "compute_shared_secret"
     /\ Len(core.call.inputs) > 0
     /\ \A i \in DOMAIN core.call.inputs :
           combine(core.call.inputs[i].pubkey, core.scan_key.secret).ok) =>
        IF \E i \in DOMAIN core.call.inputs :
              InputHash(core.scan_key, core.call.inputs[i]) % CurveOrder = 0
        THEN core.ret = Err("CryptoError")
        ELSE core.ret = Ok(to_be_bytes(ReducedSum(core.scan_key, core.call.inputs, 1)))

\* A call with an input whose hash is not below the group order.
C20_HashNotBelowOrder ==
    /\ core.call.fn = "compute_shared_secret"
    /\ \E i \in DOMAIN core.call.inputs :
          InputHash(core.scan_key, core.call.inputs[i]) >= CurveOrder

\* A call with an input whose hash is 0 that returns the sum.
C20_HashZeroAccepted ==
    /\ core.call.fn = "compute_shared_secret"
    /\ \E i \in DOMAIN core.call.inputs :
          InputHash(core.scan_key, core.call.inputs[i]) = 0
    /\ core.ret.ok

\* The sum modulo the group order of the per-input scalars from input i on.
RECURSIVE ScalarSum(_, _, _)
ScalarSum(self, inputs, i) ==
    IF i > Len(inputs) THEN 0
    ELSE (InputHash(self, inputs[i]) + ScalarSum(self, inputs, i + 1)) % CurveOrder

\* The lists with the same inputs, each as often, in every order.
PermutationsOf(inputs) ==
    {[i \in DOMAIN inputs |-> inputs[f[i]]] :
        f \in {g \in [DOMAIN inputs -> DOMAIN inputs] :
                  \A a, b \in DOMAIN inputs : a # b => g[a] # g[b]}}

\* C21: the shared secret is the sum modulo the group order of the per-input
\* scalars t_i, each occurrence of a duplicated input counted: so it is t_1
\* for a single input, and every permutation of the input list gives the
\* same result.
C21_SharedSecretIsSum ==
    core.call.fn = "compute_shared_secret" =>
        /\ core.ret.ok =>
              core.ret.val = to_be_bytes(ScalarSum(core.scan_key, core.call.inputs, 1))
        /\ (core.ret.ok /\ Len(core.call.inputs) = 1) =>
              core.ret.val = to_be_bytes(InputHash(core.scan_key, core.call.inputs[1]))
        /\ \A p \in PermutationsOf(core.call.inputs) :
              compute_shared_secret(core.scan_key, p) = core.ret

\* A secret computed over a list that holds the same input twice.
C21_Witness ==
    /\ core.call.fn = "compute_shared_secret"
    /\ core.ret.ok
    /\ Len(core.call.inputs) = 2
    /\ core.call.inputs[1] = core.call.inputs[2]
    /\ InputHash(core.scan_key, core.call.inputs[1]) # 0

(***************************************************************************)
(* Properties of the client                                                *)
(***************************************************************************)
\* The candidate's script has the Taproot form and its key bytes are no point.
InvalidKeyCandidate(candidate) ==
    LET script == hex_decode(candidate.script_pubkey)
    IN  /\ script.ok
        /\ IsTaproot(script.val)
        /\ ~XOnly_from_slice(SubSeq(script.val, 3, 34)).ok

\* The candidate is a payment the client detects when it is checked alone.
MatchAlone(c, candidate) ==
    LET alone == scan_range(c.self, U32(0), U32(0), c.inputs,
                            [kind |-> "scan", candidates |-> <<candidate>>])
    IN  alone.ok /\ Len(alone.val) = 1

\* C15: when a scan response holds a candidate with a Taproot-form script whose
\* key bytes are no valid x-only point, scan_range still reports the matches
\* among the other candidates of the response.
C15_InvalidKeyDoesNotPoison ==
    (/\ core.call.fn = "scan_range"
     /\ core.call.http.kind = "scan"
     /\ \E i \in DOMAIN core.call.http.candidates :
           InvalidKeyCandidate(core.call.http.candidates[i])) =>
        \A j \in DOMAIN core.call.http.candidates :
            MatchAlone(core.call, core.call.http.candidates[j]) =>
                /\ core.ret.ok
                /\ \E k \in DOMAIN core.ret.val :
                      core.ret.val[k].txid = hex_decode(core.call.http.candidates[j].txid).val

\* The key the client derives from its scan secret, its spend key and the
\* inputs for the label.
OwnOutput(self, inputs, label) ==
    LET shared_secret == compute_shared_secret(self.scan_key, inputs)
    IN  IF shared_secret.ok
        THEN derive_output_pubkey(self.scan_key, shared_secret.val, self.spend_key, label)
        ELSE shared_secret

\* The candidate carries the result's txid, vout and amount, and its script
\* pays to the result's key.
ReportedFrom(result, candidate) ==
    /\ hex_decode(candidate.txid) = Ok(result.txid)
    /\ i32_as_u32(candidate.vout) = result.vout
    /\ i64_as_u64(candidate.amount) = result.amount
    /\ hex_decode(candidate.script_pubkey)
          = Ok(TaprootScript(XOnly_serialize(result.output_pubkey)))

\* C24: whatever candidates the server returns, every result of scan_range
\* has a label that is absent or in 1..max_label and an output_pubkey equal to
\* the key derived from the client's scan secret, its spend key and the inputs
\* for that label, and is the report of a candidate with that key: a candidate
\* that does not verify locally is not reported.
C24_ClientSoundness ==
    (core.call.fn = "scan_range" /\ core.ret.ok) =>
        \A k \in DOMAIN core.ret.val :
            /\ core.ret.val[k].label
                  \in {None} \cup {Some(m) : m \in 1..core.call.self.max_label}
            /\ OwnOutput(core.call.self, core.call.inputs, core.ret.val[k].label)
                  = Ok(core.ret.val[k].output_pubkey)
            /\ \E i \in DOMAIN core.call.http.candidates :
                  ReportedFrom(core.ret.val[k], core.call.http.candidates[i])

\* A response with a labelled payment to the client and a payment to somebody
\* else, of which scan_range reports the first.
C24_Witness ==
    /\ core.call.fn = "scan_range"
    /\ core.ret.ok
    /\ Len(core.call.http.candidates) = 2
    /\ Len(core.ret.val) = 1
    /\ core.ret.val[1].label = Some(1)
    /\ \E i \in DOMAIN core.call.http.candidates :
          /\ hex_decode(core.call.http.candidates[i].script_pubkey).ok
          /\ IsTaproot(hex_decode(core.call.http.candidates[i].script_pubkey).val)
          /\ ~ReportedFrom(core.ret.val[1], core.call.http.candidates[i])

\* What check_output makes of the candidate's script for the client of the call.
CheckedLocally(c, candidate) ==
    check_output(c.self.scan_key, hex_decode(candidate.script_pubkey).val,
                 c.self.spend_key, c.inputs,
                 [m \in 1..(c.self.max_label + 1) |-> LabelOf(m - 1)])

\* The candidate's script is no hex string, or the candidate matches and its
\* txid is no hex string or no 32 bytes.
Malformed(c, candidate) ==
    IF ~hex_decode(candidate.script_pubkey).ok THEN TRUE
    ELSE IF CheckedLocally(c, candidate) \in {Ok(None)} \cup {Err(e) : e \in {"InvalidKey", "CryptoError", "InvalidInput"}}
    THEN FALSE
    ELSE IF ~hex_decode(candidate.txid).ok THEN TRUE
    ELSE Len(hex_decode(candidate.txid).val) # 32

\* C25: scan_range handles malformed server data as an error value: when the
\* first candidate the loop cannot process has a script that is no valid hex,
\* or matches and has a txid that is no valid hex or does not decode to
\* exactly 32 bytes, scan_range returns InvalidResponse; it does not abort.
C25_MalformedIsInvalidResponse ==
    (/\ core.call.fn = "scan_range"
     /\ core.call.http.kind = "scan"
     /\ core.call.request.prefixes # <<>>) =>
        \A i \in DOMAIN core.call.http.candidates :
            (/\ Malformed(core.call, core.call.http.candidates[i])
             /\ \A j \in 1..(i - 1) :
                   /\ ~Malformed(core.call, core.call.http.candidates[j])
                   /\ CheckedLocally(core.call, core.call.http.candidates[j]).ok)
                => core.ret = Err("InvalidResponse")

\* A call whose first malformed candidate has a txid that is no hex string.
C25_TxidNotHex ==
    /\ core.call.fn = "scan_range"
    /\ core.call.http.kind = "scan"
    /\ core.call.request.prefixes # <<>>
    /\ Len(core.call.http.candidates) > 0
    /\ Malformed(core.call, core.call.http.candidates[1])
    /\ hex_decode(core.call.http.candidates[1].script_pubkey).ok
    /\ ~hex_decode(core.call.http.candidates[1].txid).ok
    /\ core.ret = Err("InvalidResponse")

(***************************************************************************)
(* Properties of the stored outputs                                        *)
(***************************************************************************)
\* The output of the block stream a row of taproot_outputs was made from.
SourceOutputs(r) ==
    {tx.output[r.vout + 1] :
        tx \in {t \in UNION {Elems(b.txdata) : b \in BlockStream} :
                   t.txid = r.txid /\ r.vout < Len(t.output)}}

\* C18: after any sequence of ingested blocks every row of taproot_outputs
\* has a script_pubkey of 34 bytes equal to 0x51 0x20 followed by its
\* x_only_pubkey, and an sp_prefix whose 32 bits are the big-endian value of
\* the first four bytes of x_only_pubkey; the row is the record of an output
\* with that script, so no output with another script form is stored.
C18_StoredOutputForm ==
    \A r \in taproot_outputs :
        /\ Len(r.script_pubkey) = 34
        /\ Len(r.x_only_pubkey) = 32
        /\ r.script_pubkey = <<81, 32>> \o r.x_only_pubkey
        /\ i32_as_u32(r.sp_prefix) = u32_from_be_bytes(SubSeq(r.x_only_pubkey, 1, 4))
        /\ SourceOutputs(r) # {}
        /\ \A o \in SourceOutputs(r) : o.script_pubkey = r.script_pubkey

\* Stored rows with a prefix whose top bit is set and with one whose top bit is
\* clear, after a block with an output of 34 bytes that is not Taproot.
C18_Witness ==
    /\ \E r \in taproot_outputs : r.sp_prefix < 0
    /\ \E r \in taproot_outputs : r.sp_prefix > 0
    /\ \E b \in blocks : \E i \in 1..Len(BlockOfHash(b.hash).txdata) :
          \E o \in Elems(BlockOfHash(b.hash).txdata[i].output) :
              Len(o.script_pubkey) = 34 /\ ~IsTaproot(o.script_pubkey)

(***************************************************************************)
(* Properties of the stored heights                                        *)
(***************************************************************************)
\* The first push of the coinbase scriptSig read as a little-endian unsigned
\* integer, as a u32; 0 when there is no such push.
PushedHeight(tx) ==
    LET sig == IF Len(tx.input) = 0 THEN <<>> ELSE tx.input[1].script_sig
        n == IF Len(sig) = 0 THEN 0 ELSE sig[1]
        byte(i) == IF i <= n THEN sig[i + 1] ELSE 0
    IN  IF /\ Len(tx.input) = 1
           /\ tx.input[1].prevout_null
           /\ n \in 1..4
           /\ Len(sig) >= n + 1
        THEN [hi |-> byte(3) + 256 * byte(4), lo |-> byte(1) + 256 * byte(2)]
        ELSE [hi |-> 0, lo |-> 0]

\* C22: the height stored for a block is the first push of the coinbase
\* scriptSig read as a little-endian unsigned integer when the first byte is
\* a length of 1..4 and that many bytes follow it, it is 0 in every other
\* case, and it is never negative.
C22_StoredHeight ==
    \A r \in blocks :
        \A b \in {c \in CoinbaseBlocks : c.hash = r.hash} :
            /\ r.height >= 0
            /\ i32_as_u32(r.height) = PushedHeight(b.txdata[1])

\* A stored block whose coinbase pushes four bytes, the last with the top bit
\* set.
C22_TopBitSet ==
    \E r \in blocks :
        \E b \in {c \in CoinbaseBlocks : c.hash = r.hash} :
            PushedHeight(b.txdata[1]).hi >= 32768

====
